---- MODULE Spec2Model ----
(***************************************************************************)
(* Model of the HLS caching service worker (public/sw.js) of re_player:    *)
(* the fetch interception policy, the timestamped write path, the size     *)
(* governor, per-video invalidation, activation and the control messages.  *)
(*                                                                         *)
(* Strings are sequences of one-character strings, so that the substring   *)
(* tests and the URL splitting of the source are computed, not assumed.    *)
(* An absent header (headers.get(..) === null) is the empty sequence: the  *)
(* source only ever tests such a value for truthiness.                     *)
(***************************************************************************)
EXTENDS Integers, Sequences, FiniteSets, TLC

\* ------------------------------------------------------------ constants
CACHE_NAME == <<"h","l","s","-","c","a","c","h","e","-","v","1">>
CACHE_EXPIRY == 2 * 60 * 60 * 1000
MAX_CACHE_SIZE == 50 * 1024 * 1024
\* MAX_CACHE_SIZE * 0.8 of sw.js:89; the product is the integer 41943040
\* in IEEE double arithmetic as well.
EvictTarget == (MAX_CACHE_SIZE * 8) \div 10

CACHEABLE_EXTENSIONS ==
  << <<".","m","3","u","8">>, <<".","t","s">>, <<".","m","p","4">>, <<".","w","e","b","m">> >>

M3U8 == <<".","m","3","u","8">>

\* ------------------------------------------------------------ bounds
\* number of fetch events handled in one behaviour
MaxReq == 2
\* number of times the clock advances in one behaviour
MaxTicks == 2
\* value of Date.now() when the worker starts
Clock0 == 1
\* number of entries in the store a lone governor pass starts from
GovMaxEntries == 3
\* number of messages handled in one behaviour
MaxMsgs == 2
\* effect runs of the player component
MaxEffects == 3

\* ------------------------------------------------------------ strings
RECURSIVE IndexFrom(_, _, _)
\* String.prototype.indexOf(sub, i) on character sequences, 1-based; 0 = -1
IndexFrom(s, sub, i) ==
  IF i + Len(sub) - 1 > Len(s) THEN 0
  ELSE IF SubSeq(s, i, i + Len(sub) - 1) = sub THEN i
  ELSE IndexFrom(s, sub, i + 1)

\* String.prototype.includes
Includes(s, sub) == IndexFrom(s, sub, 1) # 0

RECURSIVE Split(_, _)
\* String.prototype.split(sep) for a one-character separator
Split(s, sep) ==
  LET i == IndexFrom(s, <<sep>>, 1)
  IN IF i = 0 THEN <<s>>
     ELSE <<SubSeq(s, 1, i - 1)>> \o Split(SubSeq(s, i + 1, Len(s)), sep)

RECURSIVE Join(_, _)
\* Array.prototype.join(sep)
Join(parts, sep) ==
  IF Len(parts) = 0 THEN <<>>
  ELSE IF Len(parts) = 1 THEN parts[1]
  ELSE parts[1] \o <<sep>> \o Join(Tail(parts), sep)

\* Array.prototype.pop / slice(0, -1): the array without its last element
DropLast(parts) == IF Len(parts) = 0 THEN parts ELSE SubSeq(parts, 1, Len(parts) - 1)

Digits == <<"0","1","2","3","4","5","6","7","8","9">>

RECURSIVE NumToString(_)
\* Number.prototype.toString() of a non-negative integer
NumToString(n) ==
  IF n < 10 THEN <<Digits[n + 1]>>
  ELSE NumToString(n \div 10) \o <<Digits[(n % 10) + 1]>>

DigitVal(c) == CHOOSE d \in 0..9 : Digits[d + 1] = c
IsDigit(c) == \E d \in 0..9 : Digits[d + 1] = c

RECURSIVE ParseDigits(_, _)
ParseDigits(s, acc) ==
  IF Len(s) = 0 \/ ~IsDigit(Head(s)) THEN acc
  ELSE ParseDigits(Tail(s), acc * 10 + DigitVal(Head(s)))

\* parseInt(s) for the strings that occur: a leading run of decimal digits.
\* parseInt of a string with no leading digit is NaN, which never occurs
\* here: the source guards every parseInt by a truthiness test or '0'.
parseInt(s) == ParseDigits(s, 0)

\* ------------------------------------------------------------ URLs
\* The URLs of the model; a request key is an index into this table.
Urls ==
  << <<"h","t","t","p","s",":","/","/","c","d","n","/","a","/","v","i","d","e","o",".","m","3","u","8">>,
     <<"h","t","t","p","s",":","/","/","c","d","n","/","a","/","s","e","g","1",".","t","s">>,
     <<"h","t","t","p","s",":","/","/","c","d","n","/","b","/","v","i","d","e","o",".","m","3","u","8">>,
     <<"h","t","t","p","s",":","/","/","c","d","n","/","a","b","/","s","e","g","1",".","t","s">>,
     <<"v","i","d","e","o",".","m","3","u","8">>,
     <<"h","t","t","p","s",":","/","/","c","d","n","/","a","/","a","p","p",".","j","s">>,
     <<"h","t","t","p","s",":","/","/","c","d","n","/","t","s","/","l","i","s","t",".","m","3","u">>,
     <<"h","t","t","p","s",":","/","/","c","d","n","/","b","/","c","l","i","p",".","m","p","4">>,
     <<"h","t","t","p","s",":","/","/","c","d","n","/","b","/","c","l","i","p",".","w","e","b","m">> >>

\* The parts of `new URL(url)` the source reads: whether parsing succeeds
\* (an absolute URL scheme://host...), origin and pathname.  Hosts of the
\* table are lower-case without port and paths hold no dot segments, so the
\* URL parser's normalisations are the identity on them.
SchemeEnd(url) == IndexFrom(url, <<":","/","/">>, 1)
UrlValid(url) == SchemeEnd(url) > 1
AfterScheme(url) == SubSeq(url, SchemeEnd(url) + 3, Len(url))
CutAt(s, c) == LET i == IndexFrom(s, <<c>>, 1) IN IF i = 0 THEN s ELSE SubSeq(s, 1, i - 1)
HostOf(url) == CutAt(CutAt(CutAt(AfterScheme(url), "/"), "?"), "#")
UrlOrigin(url) == SubSeq(url, 1, SchemeEnd(url) + 2) \o HostOf(url)
UrlPathname(url) ==
  LET rest == SubSeq(AfterScheme(url), Len(HostOf(url)) + 1, Len(AfterScheme(url)))
      p == CutAt(CutAt(rest, "?"), "#")
  IN IF Len(p) = 0 THEN <<"/">> ELSE p

\* shouldCache testing the first two extensions only.
shouldCache_TwoExtensions(url) ==
  \E i \in 1..2 : Includes(url, CACHEABLE_EXTENSIONS[i])

\* sw.js:10-12
shouldCache(url) ==
  \E i \in 1..Len(CACHEABLE_EXTENSIONS) : Includes(url, CACHEABLE_EXTENSIONS[i])

getVideoBasePath(url) ==
  IF UrlValid(url)
  THEN UrlOrigin(url) \o Join(DropLast(Split(UrlPathname(url), "/")), "/")
  ELSE Join(DropLast(Split(url, "/")), "/")

\* ------------------------------------------------------------ responses
\* Payloads the network can serve: BodySize[b] is the byte length of payload
\* b (blob.size), ContentLength(b) the content-length header sent with it
\* (absent for payload 2, as for a chunked response).
BodySize == <<1000, 20 * 1024 * 1024, 30 * 1024 * 1024>>
Bodies == 1..Len(BodySize)
ContentLength(b) == IF b = 2 THEN <<>> ELSE NumToString(BodySize[b])

\* A stored response: its request key (index into Urls), its payload and its
\* sw-cache-time header (<<>> when the header is absent).
Entry(u, b, t) == [url |-> u, body |-> b, time |-> t]

\* ------------------------------------------------------------ Cache API
\* The named store is the list of its entries in insertion order, which is
\* the order cache.keys() enumerates.
RECURSIVE Without(_, _)
Without(s, u) ==
  IF Len(s) = 0 THEN <<>>
  ELSE IF Head(s).url = u THEN Without(Tail(s), u)
  ELSE <<Head(s)>> \o Without(Tail(s), u)

\* cache.match(request): <<entry>>, or <<>> for undefined
Match(s, u) ==
  IF \E i \in 1..Len(s) : s[i].url = u
  THEN <<s[CHOOSE i \in 1..Len(s) : s[i].url = u]>>
  ELSE <<>>

\* cache.put that leaves an entry already stored for the key in place.
PutEntry_KeepsFirst(s, e) == IF Match(s, e.url) # <<>> THEN s ELSE Append(s, e)

\* cache.put(request, response): replaces the entry of the key, appending
PutEntry(s, e) == Append(Without(s, e.url), e)

\* cache.delete(request)
DeleteKey(s, u) == Without(s, u)

\* cache.keys()
KeysOf(s) == [i \in 1..Len(s) |-> s[i].url]

RECURSIVE SumSizes(_)
\* summed payload size of a list of entries
SumSizes(s) == IF Len(s) = 0 THEN 0 ELSE BodySize[Head(s).body] + SumSizes(Tail(s))

\* ------------------------------------------------------------ state
VARIABLES
  store,   \* the entries of the store named CACHE_NAME
  clock,   \* Date.now()
  ticks,   \* how often the clock has advanced
  req,     \* req[r]: the fetch handler of the r-th fetch event
  task,    \* task[r]: the background work started by handler r
  inv,     \* the clearVideoCache call in progress
  snap,    \* the store as it was when a sequential run started
  oldStores, \* the stores of other names: name -> entries
  act,     \* the activate handler
  msg,     \* the message handler of the message being handled
  page     \* the player page's clearPreviousVideoCache call

vars == <<store, clock, ticks, req, task, inv, snap, oldStores, act, msg, page>>

Reqs == 1..MaxReq

\* URLs requested through the fetch handler, and payloads served to it
ReqUrls == {1, 2}
NetBodies == {1, 3}

IdleReq ==
  [pc |-> "idle", url |-> 0, cached |-> <<>>, now |-> 0, net |-> "none",
   body |-> 0, stamp |-> <<>>, wrote |-> "none", result |-> "pending",
   error |-> "none"]

IdleTask ==
  [pc |-> "none", body |-> 0, stamp |-> <<>>, keys |-> <<>>, i |-> 0,
   items |-> <<>>, total |-> 0, out |-> "none"]

IdleInv ==
  [pc |-> "none", target |-> 0, keys |-> <<>>, i |-> 0,
   deletedCount |-> 0, deletedSize |-> 0]

\* no store of another name exists
NoStores == [n \in {} |-> <<>>]

\* the activate handler before the activate event
IdleAct == [pc |-> "none", names |-> {}, pending |-> {}, claimed |-> 0]

\* the page before it calls clearPreviousVideoCache: the URL passed, how
\* the returned promise was resolved, the 5-second timer, and the number of
\* replies delivered to port1.  The player component before its first
\* effect: previousUrlRef.current (0 is null), the localStorage item
\* artplayer_last_video_url (0 is absent), whether localStorage can be read
\* and written, whether a worker controls the page, the url prop of the last
\* effect run (0 is none), the URLs of the CLEAR_PREVIOUS_VIDEO messages
\* posted, and the number of effect runs.
IdlePage ==
  [pc |-> "none", url |-> 0, by |-> "none", timer |-> "none",
   delivered |-> 0, rejected |-> FALSE,
   ref |-> 0, ls |-> 0, storage |-> "ok", controller |-> FALSE,
   prop |-> 0, posted |-> <<>>, runs |-> 0]

\* the message handler before a message: the message's type, whether it
\* came with a reply port, the URL it carries, the keys whose blob() failed,
\* the replies posted on the port, and the type, outcome and store size of
\* the message handled before it
IdleMsg ==
  [pc |-> "none", type |-> "none", port |-> FALSE, url |-> 0, keys |-> <<>>,
   i |-> 0, total |-> 0, est |-> {}, replies |-> <<>>, out |-> "none",
   n |-> 0, prev |-> [type |-> "none", out |-> "none", count |-> 0]]

Init ==
  /\ store = <<>>
  /\ clock = Clock0
  /\ ticks = 0
  /\ req = [r \in Reqs |-> IdleReq]
  /\ task = [r \in Reqs |-> IdleTask]
  /\ inv = IdleInv
  /\ snap = <<>>
  /\ oldStores = NoStores
  /\ act = IdleAct
  /\ msg = IdleMsg
  /\ page = IdlePage

\* ------------------------------------------------------------ expiry
\* isCacheExpired without line 43: a response without the header counts as
\* fresh.
isCacheExpired_NoStampFresh(e, now) ==
  IF Len(e.time) = 0 THEN FALSE
  ELSE now - parseInt(e.time) > CACHE_EXPIRY

\* isCacheExpired with >= for > in line 46.
isCacheExpired_AtWindow(e, now) ==
  IF Len(e.time) = 0 THEN TRUE
  ELSE now - parseInt(e.time) >= CACHE_EXPIRY

\* isCacheExpired(response), with Date.now() = now
isCacheExpired(e, now) ==
  IF Len(e.time) = 0 THEN TRUE
  ELSE now - parseInt(e.time) > CACHE_EXPIRY

\* cacheWithTimestamp without line 19: the re-wrapped response carries no
\* sw-cache-time header.
cacheWithTimestamp_NoStamp(s, u, b, stamp, how) ==
  IF how \in {"stamped", "fallback"} THEN PutEntry(s, Entry(u, b, <<>>))
  ELSE s

\* cacheWithTimestamp whose failed write leaves an entry behind.
cacheWithTimestamp_FailedLeavesEntry(s, u, b, stamp, how) ==
  IF how = "stamped" THEN PutEntry(s, Entry(u, b, stamp))
  ELSE PutEntry(s, Entry(u, b, <<>>))

\* cacheWithTimestamp(cache, request, response): the store after the write.
\* how = "stamped": the put of the re-wrapped response succeeds;
\* how = "fallback": it fails and the put of the original response succeeds;
\* how = "failed": both puts fail.
cacheWithTimestamp(s, u, b, stamp, how) ==
  IF how = "stamped" THEN PutEntry(s, Entry(u, b, stamp))
  ELSE IF how = "fallback" THEN PutEntry(s, Entry(u, b, <<>>))
  ELSE s

PutOutcomes == {"stamped", "fallback", "failed"}

\* ------------------------------------------------------------ fetch handler
\* Outcomes of fetch(request): a response with a successful status, a
\* response with another status, or a rejection.
NetOutcomes == {"ok", "notok", "fail"}

\* Lookup without lines 141-148: a manifest hit starts no background fetch.
Lookup_NoRefresh(r, u) ==
  /\ req[r].pc = "idle"
  /\ IF r = 1 THEN TRUE ELSE req[r - 1].pc # "idle"
  /\ shouldCache(Urls[u])
  /\ LET c == Match(store, u) IN
       IF c = <<>>
       THEN req' = [req EXCEPT ![r] = [@ EXCEPT !.pc = "fetch", !.url = u]]
       ELSE IF ~isCacheExpired(c[1], clock)
       THEN req' = [req EXCEPT ![r] = [@ EXCEPT !.pc = "done", !.url = u,
                      !.cached = c, !.now = clock, !.result = "cache"]]
       ELSE req' = [req EXCEPT ![r] = [@ EXCEPT !.pc = "delete", !.url = u,
                      !.cached = c, !.now = clock]]
  /\ UNCHANGED <<store, clock, ticks, task, inv, snap, oldStores, act, msg, page>>

\* sw.js:122-156.  The r-th fetch event, for a cacheable URL: the store is
\* opened and the key looked up.  A fresh entry is returned, and a manifest
\* hit starts the background refresh; an expired entry goes on to its
\* deletion; a miss goes on to the network.
Lookup(r, u) ==
  /\ req[r].pc = "idle"
  /\ IF r = 1 THEN TRUE ELSE req[r - 1].pc # "idle"
  /\ shouldCache(Urls[u])
  /\ LET c == Match(store, u) IN
       IF c = <<>>
       THEN /\ req' = [req EXCEPT ![r] = [@ EXCEPT !.pc = "fetch", !.url = u]]
            /\ UNCHANGED task
       ELSE IF ~isCacheExpired(c[1], clock)
       THEN /\ req' = [req EXCEPT ![r] = [@ EXCEPT !.pc = "done", !.url = u,
                         !.cached = c, !.now = clock, !.result = "cache"]]
            /\ task' = IF Includes(Urls[u], M3U8)
                       THEN [task EXCEPT ![r] = [@ EXCEPT !.pc = "rfetch"]]
                       ELSE task
       ELSE /\ req' = [req EXCEPT ![r] = [@ EXCEPT !.pc = "delete", !.url = u,
                         !.cached = c, !.now = clock]]
            /\ UNCHANGED task
  /\ UNCHANGED <<store, clock, ticks, inv, snap, oldStores, act, msg, page>>

\* sw.js:132-134: caches.open or cache.match rejects; nothing catches it and
\* the promise given to respondWith rejects.
LookupFails(r, u) ==
  /\ req[r].pc = "idle"
  /\ IF r = 1 THEN TRUE ELSE req[r - 1].pc # "idle"
  /\ shouldCache(Urls[u])
  /\ req' = [req EXCEPT ![r] = [@ EXCEPT !.pc = "done", !.url = u,
               !.result = "error", !.error = "store"]]
  /\ UNCHANGED <<store, clock, ticks, task, inv, snap, oldStores, act, msg, page>>

\* sw.js:123-128: the r-th fetch event, for a URL that shouldCache rejects:
\* the handler responds with fetch(request).
PassThrough(r, u) ==
  /\ req[r].pc = "idle"
  /\ IF r = 1 THEN TRUE ELSE req[r - 1].pc # "idle"
  /\ ~shouldCache(Urls[u])
  /\ req' = [req EXCEPT ![r] = [@ EXCEPT !.pc = "pass", !.url = u]]
  /\ UNCHANGED <<store, clock, ticks, task, inv, snap, oldStores, act, msg, page>>

\* sw.js:128: the fetch of a passed-through request settles, and with it
\* the response to the caller.
PassRespond(r, outcome) ==
  /\ req[r].pc = "pass"
  /\ req' = [req EXCEPT ![r] =
       IF outcome = "fail"
       THEN [@ EXCEPT !.pc = "done", !.net = "fail", !.result = "error",
                      !.error = "net"]
       ELSE [@ EXCEPT !.pc = "done", !.net = outcome, !.result = "net"]]
  /\ UNCHANGED <<store, clock, ticks, task, inv, snap, oldStores, act, msg, page>>

\* ExpiryDelete without line 155: the expired entry stays in the store.
ExpiryDelete_KeepsEntry(r) ==
  /\ req[r].pc = "delete"
  /\ req' = [req EXCEPT ![r] = [@ EXCEPT !.pc = "fetch"]]
  /\ UNCHANGED <<store, clock, ticks, task, inv, snap, oldStores, act, msg, page>>

\* sw.js:155-161: the expired entry's key is deleted, then fetch is issued.
ExpiryDelete(r) ==
  /\ req[r].pc = "delete"
  /\ store' = DeleteKey(store, req[r].url)
  /\ req' = [req EXCEPT ![r] = [@ EXCEPT !.pc = "fetch"]]
  /\ UNCHANGED <<clock, ticks, task, inv, snap, oldStores, act, msg, page>>

\* sw.js:155: cache.delete rejects, outside the try of line 159.
ExpiryDeleteFails(r) ==
  /\ req[r].pc = "delete"
  /\ req' = [req EXCEPT ![r] = [@ EXCEPT !.pc = "done", !.result = "error",
               !.error = "store"]]
  /\ UNCHANGED <<store, clock, ticks, task, inv, snap, oldStores, act, msg, page>>

\* NetRespond whose catch block (lines 173-183) rethrows without looking at
\* cachedResponse.
NetRespond_AlwaysRethrow(r, outcome, b) ==
  /\ req[r].pc = "fetch"
  /\ req' = [req EXCEPT ![r] =
       IF outcome = "ok"
       THEN [@ EXCEPT !.pc = "put", !.net = "ok", !.body = b,
                      !.stamp = NumToString(clock)]
       ELSE IF outcome = "notok"
       THEN [@ EXCEPT !.pc = "done", !.net = "notok", !.result = "net"]
       ELSE [@ EXCEPT !.pc = "done", !.net = "fail", !.result = "error",
                      !.error = "net"]]
  /\ UNCHANGED <<store, clock, ticks, task, inv, snap, oldStores, act, msg, page>>

\* NetRespond answering a non-successful status with the looked-up entry.
NetRespond_NotOkServesStale(r, outcome, b) ==
  /\ req[r].pc = "fetch"
  /\ req' = [req EXCEPT ![r] =
       IF outcome = "ok"
       THEN [@ EXCEPT !.pc = "put", !.net = "ok", !.body = b,
                      !.stamp = NumToString(clock)]
       ELSE IF req[r].cached # <<>>
       THEN [@ EXCEPT !.pc = "done", !.net = outcome, !.result = "cache"]
       ELSE IF outcome = "notok"
       THEN [@ EXCEPT !.pc = "done", !.net = "notok", !.result = "net"]
       ELSE [@ EXCEPT !.pc = "done", !.net = "fail", !.result = "error",
                      !.error = "net"]]
  /\ UNCHANGED <<store, clock, ticks, task, inv, snap, oldStores, act, msg, page>>

\* sw.js:161-183: the network answers.  A successful response is stamped
\* with Date.now() (line 19) and its put begins; another status is returned
\* as it is; a rejection returns the looked-up entry if there was one and is
\* rethrown otherwise.
NetRespond(r, outcome, b) ==
  /\ req[r].pc = "fetch"
  /\ req' = [req EXCEPT ![r] =
       IF outcome = "ok"
       THEN [@ EXCEPT !.pc = "put", !.net = "ok", !.body = b,
                      !.stamp = NumToString(clock)]
       ELSE IF outcome = "notok"
       THEN [@ EXCEPT !.pc = "done", !.net = "notok", !.result = "net"]
       ELSE IF req[r].cached # <<>>
       THEN [@ EXCEPT !.pc = "done", !.net = "fail", !.result = "cache"]
       ELSE [@ EXCEPT !.pc = "done", !.net = "fail", !.result = "error",
                      !.error = "net"]]
  /\ UNCHANGED <<store, clock, ticks, task, inv, snap, oldStores, act, msg, page>>

\* WriteBack with `await manageCacheSize()` in line 169: the response is
\* held back until the pass has finished.
WriteBack_AwaitsGovernor(r, how) ==
  /\ req[r].pc = "put"
  /\ store' = cacheWithTimestamp(store, req[r].url, req[r].body, req[r].stamp, how)
  /\ req' = [req EXCEPT ![r] = [@ EXCEPT !.pc = "gwait", !.wrote = how]]
  /\ task' = [task EXCEPT ![r] = [@ EXCEPT !.pc = "gkeys"]]
  /\ UNCHANGED <<clock, ticks, inv, snap, oldStores, act, msg, page>>

\* sw.js:165-172: cacheWithTimestamp settles, manageCacheSize() is started
\* and the network response is returned.
WriteBack(r, how) ==
  /\ req[r].pc = "put"
  /\ store' = cacheWithTimestamp(store, req[r].url, req[r].body, req[r].stamp, how)
  /\ req' = [req EXCEPT ![r] = [@ EXCEPT !.pc = "done", !.wrote = how,
               !.result = "net"]]
  /\ task' = [task EXCEPT ![r] = [@ EXCEPT !.pc = "gkeys"]]
  /\ UNCHANGED <<clock, ticks, inv, snap, oldStores, act, msg, page>>

\* sw.js:142-147: the background fetch of a manifest hit answers.
RefreshRespond(r, outcome, b) ==
  /\ task[r].pc = "rfetch"
  /\ task' = [task EXCEPT ![r] =
       IF outcome = "ok"
       THEN [@ EXCEPT !.pc = "rput", !.body = b, !.stamp = NumToString(clock)]
       ELSE [@ EXCEPT !.pc = "done", !.out = outcome]]
  /\ UNCHANGED <<store, clock, ticks, req, inv, snap, oldStores, act, msg, page>>

\* sw.js:144: cacheWithTimestamp of the background refresh settles.
RefreshPut(r, how) ==
  /\ task[r].pc = "rput"
  /\ store' = cacheWithTimestamp(store, req[r].url, task[r].body, task[r].stamp, how)
  /\ task' = [task EXCEPT ![r] = [@ EXCEPT !.pc = "done", !.out = how]]
  /\ UNCHANGED <<clock, ticks, req, inv, snap, oldStores, act, msg, page>>

\* Date.now() advances, by a millisecond or by the expiry window.
ClockSteps == {1, CACHE_EXPIRY}

Tick(d) ==
  /\ ticks < MaxTicks
  /\ clock' = clock + d
  /\ ticks' = ticks + 1
  /\ UNCHANGED <<store, req, task, inv, snap, oldStores, act, msg, page>>

\* ------------------------------------------------------------ size governor
\* An element of `items` (sw.js:74-78): request key, measured size and time.
Item(u, size, time) == [url |-> u, size |-> size, time |-> time]

RECURSIVE InsertByTime(_, _)
\* x placed behind every element that does not compare greater
InsertByTime(sorted, x) ==
  IF Len(sorted) = 0 THEN <<x>>
  ELSE IF Head(sorted).time - x.time > 0 THEN <<x>> \o sorted
  ELSE <<Head(sorted)>> \o InsertByTime(Tail(sorted), x)

\* manageCacheSize without line 86: items stay in enumeration order.
SortByTime_Unsorted(items) == items

RECURSIVE SortByTime(_)
\* items.sort((a, b) => a.time - b.time) of sw.js:86; Array.prototype.sort
\* is stable, so entries of equal time keep their enumeration order.
SortByTime(items) ==
  IF Len(items) = 0 THEN <<>>
  ELSE InsertByTime(SortByTime(DropLast(items)), items[Len(items)])

\* lines 60-70 as if blob() never failed: always the payload's byte length.
MeasuredSize_Exact(e, blobOk) == BodySize[e.body]

\* lines 65-69 without the content-length fallback: a failed blob() counts 0.
MeasuredSize_NoFallback(e, blobOk) == IF blobOk THEN BodySize[e.body] ELSE 0

\* sw.js:60-70: blob.size, or when response.blob() rejects the declared
\* content-length, 0 without one.
MeasuredSize(e, blobOk) ==
  IF blobOk THEN BodySize[e.body]
  ELSE IF Len(ContentLength(e.body)) # 0 THEN parseInt(ContentLength(e.body))
  ELSE 0

\* line 72 with Date.now() for '0': a missing stamp counts as newest.
ItemTime_MissingIsNow(e) == IF Len(e.time) # 0 THEN parseInt(e.time) ELSE clock + 1

\* sw.js:72,77: parseInt(response.headers.get('sw-cache-time') || '0')
ItemTime(e) == parseInt(IF Len(e.time) # 0 THEN e.time ELSE <<"0">>)

\* sw.js:51-55: manageCacheSize opens the store and enumerates its keys.
GovKeys(r) ==
  /\ task[r].pc = "gkeys"
  /\ task' = [task EXCEPT ![r] =
       [@ EXCEPT !.pc = IF Len(store) = 0 THEN "done" ELSE "gmeasure",
                 !.keys = KeysOf(store), !.i = 1]]
  /\ UNCHANGED <<store, clock, ticks, req, inv, snap, oldStores, act, msg, page>>

\* line 85 comparing with 80% of the ceiling.
OverCeiling_AtEighty(totalSize) == totalSize > EvictTarget

\* sw.js:85: totalSize > MAX_CACHE_SIZE
OverCeiling(totalSize) == totalSize > MAX_CACHE_SIZE

\* sw.js:57-86: one turn of the measuring loop: the key is looked up and,
\* if still stored, measured and appended to items.  After the last key the
\* total decides whether the pass evicts (line 85) and items is sorted.
GovMeasure(r, blobOk) ==
  /\ task[r].pc = "gmeasure"
  /\ LET t == task[r]
         c == Match(store, t.keys[t.i])
         size == IF c = <<>> THEN 0 ELSE MeasuredSize(c[1], blobOk)
         items == IF c = <<>> THEN t.items
                  ELSE Append(t.items, Item(t.keys[t.i], size, ItemTime(c[1])))
         total == t.total + size
     IN /\ c = <<>> => blobOk
        /\ task' = [task EXCEPT ![r] =
             LET est == IF blobOk THEN t.out ELSE "estimated" IN
             IF t.i < Len(t.keys)
             THEN [@ EXCEPT !.i = t.i + 1, !.items = items, !.total = total,
                            !.out = est]
             ELSE IF OverCeiling(total)
             THEN [@ EXCEPT !.pc = "gevict", !.i = 1, !.out = est,
                            !.items = SortByTime(items), !.total = total]
             ELSE [@ EXCEPT !.pc = "done", !.items = items, !.total = total,
                            !.out = est]]
  /\ UNCHANGED <<store, clock, ticks, req, inv, snap, oldStores, act, msg, page>>

\* sw.js:88-94: one turn of the eviction loop: the oldest remaining item is
\* deleted and its size subtracted; the loop ends at 80% of the ceiling or
\* with the last item.
GovEvict(r) ==
  /\ task[r].pc = "gevict"
  /\ LET t == task[r]
         item == t.items[t.i]
         total == t.total - item.size
     IN /\ store' = DeleteKey(store, item.url)
        /\ task' = [task EXCEPT ![r] =
             IF total <= EvictTarget \/ t.i = Len(t.items)
             THEN [@ EXCEPT !.pc = "done", !.i = t.i + 1, !.total = total]
             ELSE [@ EXCEPT !.i = t.i + 1, !.total = total]]
  /\ UNCHANGED <<clock, ticks, req, inv, snap, oldStores, act, msg, page>>

\* sw.js:51-52,58,91 and 169: a store operation of the pass rejects; the
\* pass ends there and .catch(console.error) takes the error.
GovFails(r) ==
  /\ task[r].pc \in {"gkeys", "gmeasure", "gevict"}
  /\ task' = [task EXCEPT ![r] = [@ EXCEPT !.pc = "done", !.out = "error"]]
  /\ UNCHANGED <<store, clock, ticks, req, inv, snap, oldStores, act, msg, page>>

\* ------------------------------------------------------------ invalidation
\* line 214 without its includes() test.
InVideoCache_BaseOnly(requestUrl, basePath) ==
  getVideoBasePath(requestUrl) = basePath

\* line 214 testing a base path cut one character short.
InVideoCache_ShortBase(requestUrl, basePath) ==
  Includes(requestUrl, DropLast(basePath)) \/ getVideoBasePath(requestUrl) = basePath

\* sw.js:214: the test that selects a key for deletion
InVideoCache(requestUrl, basePath) ==
  Includes(requestUrl, basePath) \/ getVideoBasePath(requestUrl) = basePath

RECURSIVE NextSelected(_, _, _)
\* the first index from i on whose key line 214 selects; Len(keys) + 1 if none
NextSelected(keys, i, basePath) ==
  IF i > Len(keys) THEN i
  ELSE IF InVideoCache(Urls[keys[i]], basePath) THEN i
  ELSE NextSelected(keys, i + 1, basePath)

\* URLs a CLEAR_PREVIOUS_VIDEO message can carry
Targets == 1..Len(Urls)

\* sw.js:203-214: clearVideoCache(videoUrl) opens the store, enumerates the
\* keys and walks to the first selected key.
ClearStart(t) ==
  /\ inv.pc = "none"
  /\ LET keys == KeysOf(store)
         first == NextSelected(keys, 1, getVideoBasePath(Urls[t]))
     IN inv' = [inv EXCEPT !.pc = IF first > Len(keys) THEN "done" ELSE "match",
                           !.target = t, !.keys = keys, !.i = first]
  /\ UNCHANGED <<store, clock, ticks, req, task, snap, oldStores, act, msg, page>>

\* sw.js:215-226: the selected key is looked up and its size added.
ClearMatch(blobOk) ==
  /\ inv.pc = "match"
  /\ LET c == Match(store, inv.keys[inv.i])
     IN /\ c = <<>> => blobOk
        /\ inv' = [inv EXCEPT !.pc = "delete",
                     !.deletedSize = @ + IF c = <<>> THEN 0
                                         ELSE MeasuredSize(c[1], blobOk)]
  /\ UNCHANGED <<store, clock, ticks, req, task, snap, oldStores, act, msg, page>>

\* sw.js:228-234: the key is deleted and counted; the walk goes on to the
\* next selected key, or returns {deletedCount, deletedSize}.
ClearDelete ==
  /\ inv.pc = "delete"
  /\ store' = DeleteKey(store, inv.keys[inv.i])
  /\ LET next == NextSelected(inv.keys, inv.i + 1, getVideoBasePath(Urls[inv.target]))
     IN inv' = [inv EXCEPT !.pc = IF next > Len(inv.keys) THEN "done" ELSE "match",
                           !.i = next, !.deletedCount = @ + 1]
  /\ UNCHANGED <<clock, ticks, req, task, snap, oldStores, act, msg, page>>

\* ------------------------------------------------------------ activation
\* line 111 testing for a name that does not start with CACHE_NAME.
IsOldStore_Prefix(cacheName) == IndexFrom(cacheName, CACHE_NAME, 1) # 1

\* sw.js:111: cacheName !== CACHE_NAME
IsOldStore(cacheName) == cacheName # CACHE_NAME

\* sw.js:108: caches.keys().  The store named CACHE_NAME is listed when it
\* exists (cur); a store that holds entries exists.
CacheNames(cur) == DOMAIN oldStores \cup (IF cur THEN {CACHE_NAME} ELSE {})

\* sw.js:107-116: the activate event: the store names are enumerated and
\* caches.delete is called for every name that line 111 selects.
ActivateKeys(cur) ==
  /\ act.pc = "start"
  /\ store # <<>> => cur
  /\ LET names == CacheNames(cur)
         pending == { n \in names : IsOldStore(n) }
     IN act' = [act EXCEPT !.pc = IF pending = {} THEN "claim" ELSE "deleting",
                           !.names = names, !.pending = pending]
  /\ UNCHANGED <<store, clock, ticks, req, task, inv, snap, oldStores, msg, page>>

\* ActivateDelete with Promise.race for Promise.all in line 109: the chain
\* goes on when the first deletion completes.
ActivateDelete_FirstSettles(n) ==
  /\ act.pc = "deleting"
  /\ n \in act.pending
  /\ IF n = CACHE_NAME
     THEN store' = <<>> /\ UNCHANGED oldStores
     ELSE /\ oldStores' = [m \in DOMAIN oldStores \ {n} |-> oldStores[m]]
          /\ UNCHANGED store
  /\ act' = [act EXCEPT !.pending = @ \ {n}, !.pc = "claim"]
  /\ UNCHANGED <<clock, ticks, req, task, inv, snap, msg, page>>

\* sw.js:113: one of the caches.delete(cacheName) calls completes: the store
\* of that name is gone with all its entries.  Promise.all (line 109) is
\* fulfilled with the last of them.
ActivateDelete(n) ==
  /\ act.pc = "deleting"
  /\ n \in act.pending
  /\ IF n = CACHE_NAME
     THEN store' = <<>> /\ UNCHANGED oldStores
     ELSE /\ oldStores' = [m \in DOMAIN oldStores \ {n} |-> oldStores[m]]
          /\ UNCHANGED store
  /\ act' = [act EXCEPT !.pending = @ \ {n},
                        !.pc = IF act.pending = {n} THEN "claim" ELSE "deleting"]
  /\ UNCHANGED <<clock, ticks, req, task, inv, snap, msg, page>>

\* sw.js:117: .then(() => self.clients.claim())
ActivateClaim ==
  /\ act.pc = "claim"
  /\ act' = [act EXCEPT !.pc = "done", !.claimed = @ + 1]
  /\ UNCHANGED <<store, clock, ticks, req, task, inv, snap, oldStores, msg, page>>

\* ------------------------------------------------------------ messages
MsgTypes == {"CLEAR_CACHE", "CLEAR_PREVIOUS_VIDEO", "GET_CACHE_SIZE", "OTHER"}

\* URLs carried by the CLEAR_PREVIOUS_VIDEO messages of the model
MsgTargets == {1, 3, 5}

\* sw.js:243-245 and alike: if (event.ports && event.ports[0]) postMessage
Post(m, reply) == IF m.port THEN Append(m.replies, reply) ELSE m.replies

\* sw.js:238-239,250,269: a message arrives, with or without a reply port.
\* A message of another type matches none of the three tests.
MsgReceive(type, port, t) ==
  /\ msg.pc \in {"none", "settled"}
  /\ msg.n < MaxMsgs
  /\ (type = "CLEAR_PREVIOUS_VIDEO") = (t # 0)
  /\ msg' = [IdleMsg EXCEPT
               !.pc = IF type = "OTHER" THEN "settled" ELSE "run",
               !.out = IF type = "OTHER" THEN "ignored" ELSE "none",
               !.type = type, !.port = port, !.url = t, !.n = msg.n + 1,
               !.prev = [type |-> msg.type, out |-> msg.out, count |-> Len(snap)]]
  /\ snap' = store
  /\ inv' = IdleInv
  /\ UNCHANGED <<store, clock, ticks, req, task, oldStores, act, page>>

\* CLEAR_CACHE replying before the deletion.
ClearAllDelete_ReplyFirst ==
  /\ msg.type = "CLEAR_CACHE"
  /\ msg.pc = "run"
  /\ msg' = [msg EXCEPT !.pc = "replied", !.replies = Post(msg, [success |-> TRUE])]
  /\ UNCHANGED <<store, clock, ticks, req, task, inv, snap, oldStores, act, page>>

\* sw.js:241: caches.delete(CACHE_NAME) completes: the store is gone with
\* all its entries.
ClearAllDelete ==
  /\ msg.type = "CLEAR_CACHE"
  /\ msg.pc = "run"
  /\ store' = <<>>
  /\ msg' = [msg EXCEPT !.pc = "deleted"]
  /\ UNCHANGED <<clock, ticks, req, task, inv, snap, oldStores, act, page>>

\* sw.js:241-246: the .then callback posts {success: true}
ClearAllReply ==
  /\ msg.type = "CLEAR_CACHE"
  /\ msg.pc = "deleted"
  /\ msg' = [msg EXCEPT !.pc = "settled", !.out = "ok",
                        !.replies = Post(msg, [success |-> TRUE])]
  /\ UNCHANGED <<store, clock, ticks, req, task, inv, snap, oldStores, act, page>>

\* sw.js:241: caches.delete rejects; the chain has no catch.
ClearAllFails ==
  /\ msg.type = "CLEAR_CACHE"
  /\ msg.pc = "run"
  /\ msg' = [msg EXCEPT !.pc = "settled", !.out = "error"]
  /\ UNCHANGED <<store, clock, ticks, req, task, inv, snap, oldStores, act, page>>

\* sw.js:252: clearVideoCache(event.data.url) is called
ClearVideoCall ==
  /\ msg.type = "CLEAR_PREVIOUS_VIDEO"
  /\ msg.pc = "run"
  /\ ClearStart(msg.url)

\* sw.js:252-259: clearVideoCache has returned; {success: true, ...result}
ClearVideoReply ==
  /\ msg.type = "CLEAR_PREVIOUS_VIDEO"
  /\ msg.pc = "run"
  /\ inv.pc = "done"
  /\ msg' = [msg EXCEPT !.pc = "settled", !.out = "ok",
               !.replies = Post(msg, [success |-> TRUE,
                                      deletedCount |-> inv.deletedCount,
                                      deletedSize |-> inv.deletedSize])]
  /\ UNCHANGED <<store, clock, ticks, req, task, inv, snap, oldStores, act, page>>

\* sw.js:203-204,215,228: a store operation of clearVideoCache rejects and
\* the call rejects with it.
ClearVideoFails ==
  /\ msg.type = "CLEAR_PREVIOUS_VIDEO"
  /\ msg.pc = "run"
  /\ inv.pc \in {"none", "match", "delete"}
  /\ inv' = [inv EXCEPT !.pc = "failed"]
  /\ UNCHANGED <<store, clock, ticks, req, task, snap, oldStores, act, msg, page>>

\* sw.js:260-265: .catch posts {success: false, error: error.message}
ClearVideoCatch ==
  /\ msg.type = "CLEAR_PREVIOUS_VIDEO"
  /\ msg.pc = "run"
  /\ inv.pc = "failed"
  /\ msg' = [msg EXCEPT !.pc = "settled", !.out = "error",
               !.replies = Post(msg, [success |-> FALSE, error |-> "message"])]
  /\ UNCHANGED <<store, clock, ticks, req, task, inv, snap, oldStores, act, page>>

\* sw.js:290-295: the reply of GET_CACHE_SIZE
SizeReply(total, keys) == [size |-> total, count |-> Len(keys)]

\* sw.js:271-275,290-295: the store is opened and its keys enumerated; with
\* no key the loop is skipped and the reply posted.
SizeKeys ==
  /\ msg.type = "GET_CACHE_SIZE"
  /\ msg.pc = "run"
  /\ LET keys == KeysOf(store)
     IN msg' = IF Len(keys) = 0
               THEN [msg EXCEPT !.pc = "settled", !.out = "ok",
                                !.replies = Post(msg, SizeReply(0, keys))]
               ELSE [msg EXCEPT !.pc = "measure", !.keys = keys, !.i = 1]
  /\ UNCHANGED <<store, clock, ticks, req, task, inv, snap, oldStores, act, page>>

\* sw.js:275-295: one turn of the loop: the key is looked up and its size
\* added; after the last key the reply is posted.
SizeMeasure(blobOk) ==
  /\ msg.type = "GET_CACHE_SIZE"
  /\ msg.pc = "measure"
  /\ LET c == Match(store, msg.keys[msg.i])
         total == msg.total + IF c = <<>> THEN 0 ELSE MeasuredSize(c[1], blobOk)
         est == IF blobOk THEN msg.est ELSE msg.est \cup {msg.keys[msg.i]}
     IN /\ c = <<>> => blobOk
        /\ msg' = IF msg.i < Len(msg.keys)
                  THEN [msg EXCEPT !.i = @ + 1, !.total = total, !.est = est]
                  ELSE [msg EXCEPT !.pc = "settled", !.out = "ok", !.i = @ + 1,
                                   !.total = total, !.est = est,
                                   !.replies = Post(msg, SizeReply(total, msg.keys))]
  /\ UNCHANGED <<store, clock, ticks, req, task, inv, snap, oldStores, act, page>>

\* sw.js:271-276: caches.open, cache.keys or cache.match rejects; the chain
\* has no catch.
SizeFails ==
  /\ msg.type = "GET_CACHE_SIZE"
  /\ msg.pc \in {"run", "measure"}
  /\ msg' = [msg EXCEPT !.pc = "settled", !.out = "error"]
  /\ UNCHANGED <<store, clock, ticks, req, task, inv, snap, oldStores, act, page>>

\* ------------------------------------------------------------ player page
\* resolve() of the promise returned by clearPreviousVideoCache: the first
\* call settles it, a later call does nothing.
Resolve(p, how) ==
  IF p.pc = "waiting" THEN [p EXCEPT !.pc = "resolved", !.by = how] ELSE p

\* M3U8Player.tsx:99-127: clearPreviousVideoCache(previousUrl).  Without a
\* controller the async function returns at once; with one it installs
\* onmessage on port1, posts the message with port2 and arms the timer.
PageCall(controller, t) ==
  /\ page.pc = "none"
  /\ page' = IF controller
             THEN [page EXCEPT !.pc = "waiting", !.url = t, !.timer = "armed"]
             ELSE [page EXCEPT !.pc = "resolved", !.url = t, !.by = "nocontroller"]
  /\ UNCHANGED <<store, clock, ticks, req, task, inv, snap, oldStores, act, msg>>

\* M3U8Player.tsx:116-122 and sw.js:238,250: the posted message reaches the
\* worker's message listener.
PageMessageArrives ==
  /\ page.timer # "none"
  /\ msg.n = 0
  /\ MsgReceive("CLEAR_PREVIOUS_VIDEO", TRUE, page.url)

\* M3U8Player.tsx:108-114: a reply reaches port1.onmessage, which resolves.
PageDeliver ==
  /\ page.delivered < Len(msg.replies)
  /\ page' = [Resolve(page, "reply") EXCEPT !.delivered = @ + 1]
  /\ UNCHANGED <<store, clock, ticks, req, task, inv, snap, oldStores, act, msg>>

\* The timer firing without calling resolve.
PageTimer_NoResolve ==
  /\ page.timer = "armed"
  /\ page' = [page EXCEPT !.timer = "fired"]
  /\ UNCHANGED <<store, clock, ticks, req, task, inv, snap, oldStores, act, msg>>

\* M3U8Player.tsx:125: setTimeout(resolve, 5000) fires.
PageTimer ==
  /\ page.timer = "armed"
  /\ page' = [Resolve(page, "timer") EXCEPT !.timer = "fired"]
  /\ UNCHANGED <<store, clock, ticks, req, task, inv, snap, oldStores, act, msg>>

\* ------------------------------------------------------------ player effect
\* the manifests the player is given
PlayUrls == {1, 3}

\* localStorage works, rejects writes (quota), or rejects every access
StorageStates == {"ok", "full", "blocked"}

\* M3U8Player.tsx:32-38: getLastVideoUrl(); a throwing getItem gives null.
getLastVideoUrl(p) == IF p.storage = "blocked" THEN 0 ELSE p.ls

\* M3U8Player.tsx:41-47: saveCurrentVideoUrl(url); a throwing setItem is
\* logged and leaves the item as it was.
saveCurrentVideoUrl(p, u) == IF p.storage = "ok" THEN [p EXCEPT !.ls = u] ELSE p

\* The effect without line 158: the ref keeps what it held.
PlayerEffect_RefNotUpdated(u) ==
  /\ page.runs < MaxEffects
  /\ page' =
       IF u = 0 THEN [page EXCEPT !.runs = @ + 1, !.prop = 0]
       ELSE LET lastVideoUrl == IF page.ref # 0 THEN page.ref
                                ELSE getLastVideoUrl(page)
                send == lastVideoUrl # 0 /\ lastVideoUrl # u /\ page.controller
            IN saveCurrentVideoUrl(
                 [page EXCEPT !.runs = @ + 1, !.prop = u,
                    !.posted = IF send THEN Append(@, lastVideoUrl) ELSE @],
                 u)
  /\ UNCHANGED <<store, clock, ticks, req, task, inv, snap, oldStores, act, msg>>

\* M3U8Player.tsx:145-159 with 99-122: the effect runs for the url prop u
\* (0 is an empty url; artRef.current is the container the component always
\* renders).  Without a url it returns.  Otherwise the last URL is the ref's
\* or, when the ref is null, the stored one; if there is one and it differs
\* from u, clearPreviousVideoCache is called with it, which posts
\* CLEAR_PREVIOUS_VIDEO when a worker controls the page and returns at once
\* when none does; then the ref and the stored item are set to u.
PlayerEffect(u) ==
  /\ page.runs < MaxEffects
  /\ page' =
       IF u = 0 THEN [page EXCEPT !.runs = @ + 1, !.prop = 0]
       ELSE LET lastVideoUrl == IF page.ref # 0 THEN page.ref
                                ELSE getLastVideoUrl(page)
                send == lastVideoUrl # 0 /\ lastVideoUrl # u /\ page.controller
            IN saveCurrentVideoUrl(
                 [page EXCEPT !.runs = @ + 1, !.prop = u, !.ref = u,
                    !.posted = IF send THEN Append(@, lastVideoUrl) ELSE @],
                 u)
  /\ UNCHANGED <<store, clock, ticks, req, task, inv, snap, oldStores, act, msg>>

\* M3U8Player.tsx:135: the page is loaded again; the new component instance
\* starts with previousUrlRef.current = null, localStorage is kept.
PlayerReload ==
  /\ page.ref # 0
  /\ page' = [page EXCEPT !.ref = 0, !.prop = 0]
  /\ UNCHANGED <<store, clock, ticks, req, task, inv, snap, oldStores, act, msg>>

\* M3U8Player.tsx:34,43: localStorage becomes available, full or blocked.
StorageChange(s) ==
  /\ page.storage # s
  /\ page' = [page EXCEPT !.storage = s]
  /\ UNCHANGED <<store, clock, ticks, req, task, inv, snap, oldStores, act, msg>>

\* M3U8Player.tsx:100: navigator.serviceWorker.controller is set when the
\* worker claims the page (sw.js:117) and null on a page it does not control.
ControllerChange(c) ==
  /\ page.controller # c
  /\ page' = [page EXCEPT !.controller = c]
  /\ UNCHANGED <<store, clock, ticks, req, task, inv, snap, oldStores, act, msg>>

\* ------------------------------------------------------------ specifications
\* The worker serving fetch events, with every background refresh and
\* governor pass they start.
Next ==
  \/ \E r \in Reqs, u \in ReqUrls : Lookup(r, u)
  \/ \E r \in Reqs, u \in ReqUrls : LookupFails(r, u)
  \/ \E r \in Reqs : ExpiryDelete(r)
  \/ \E r \in Reqs : ExpiryDeleteFails(r)
  \/ \E r \in Reqs, o \in NetOutcomes, b \in NetBodies : NetRespond(r, o, b)
  \/ \E r \in Reqs, how \in PutOutcomes : WriteBack(r, how)
  \/ \E r \in Reqs, o \in NetOutcomes, b \in NetBodies : RefreshRespond(r, o, b)
  \/ \E r \in Reqs, how \in PutOutcomes : RefreshPut(r, how)
  \/ \E r \in Reqs : GovKeys(r)
  \/ \E r \in Reqs, blobOk \in BOOLEAN : GovMeasure(r, blobOk)
  \/ \E r \in Reqs : GovEvict(r)
  \/ \E r \in Reqs : GovFails(r)
  \/ \E d \in ClockSteps : Tick(d)

Spec == Init /\ [][Next]_vars

\* ---- the worker without failures, over a store kept from an earlier run
\* Cache storage outlives the worker: it starts with what earlier runs left.
WarmStore == << Entry(2, 3, NumToString(Clock0)), Entry(1, 1, NumToString(Clock0)) >>

InitWarm ==
  /\ store = WarmStore
  /\ clock = Clock0
  /\ ticks = 0
  /\ req = [r \in Reqs |-> IdleReq]
  /\ task = [r \in Reqs |-> IdleTask]
  /\ inv = IdleInv
  /\ snap = <<>>
  /\ oldStores = NoStores
  /\ act = IdleAct
  /\ msg = IdleMsg
  /\ page = IdlePage

\* Every store operation, put and measurement succeeds.
NextNoFail ==
  \/ \E r \in Reqs, u \in ReqUrls : Lookup(r, u)
  \/ \E r \in Reqs : ExpiryDelete(r)
  \/ \E r \in Reqs, o \in NetOutcomes, b \in NetBodies : NetRespond(r, o, b)
  \/ \E r \in Reqs : WriteBack(r, "stamped")
  \/ \E r \in Reqs, o \in NetOutcomes, b \in NetBodies : RefreshRespond(r, o, b)
  \/ \E r \in Reqs : RefreshPut(r, "stamped")
  \/ \E r \in Reqs : GovKeys(r)
  \/ \E r \in Reqs : GovMeasure(r, TRUE)
  \/ \E r \in Reqs : GovEvict(r)
  \/ \E d \in ClockSteps : Tick(d)

SpecWarm == InitWarm /\ [][NextNoFail]_vars

\* ---- one governor pass, run alone from any store
RECURSIVE SortedSeq(_)
\* the elements of a set of numbers in increasing order
SortedSeq(S) ==
  IF S = {} THEN <<>>
  ELSE LET m == CHOOSE x \in S : \A y \in S : x <= y
       IN <<m>> \o SortedSeq(S \ {m})

\* the stores holding the keys ks, in that order, with payloads from bs and
\* sw-cache-time headers from ts
StoresOver(ks, bs, ts) ==
  { [i \in 1..Len(ks) |-> Entry(ks[i], b[i], t[i])] :
      b \in [1..Len(ks) -> bs], t \in [1..Len(ks) -> ts] }

GovTimes == { <<>>, NumToString(Clock0), NumToString(Clock0 + 1) }

GovStores ==
  UNION { StoresOver(SortedSeq(1..n), Bodies, GovTimes) : n \in 0..GovMaxEntries }

InitGov ==
  /\ store \in GovStores
  /\ snap = store
  /\ clock = Clock0 + 1
  /\ ticks = 0
  /\ req = [r \in Reqs |-> IdleReq]
  /\ task = [r \in Reqs |-> IF r = 1 THEN [IdleTask EXCEPT !.pc = "gkeys"] ELSE IdleTask]
  /\ inv = IdleInv
  /\ oldStores = NoStores
  /\ act = IdleAct
  /\ msg = IdleMsg
  /\ page = IdlePage

NextGov ==
  \/ GovKeys(1)
  \/ \E blobOk \in BOOLEAN : GovMeasure(1, blobOk)
  \/ GovEvict(1)

SpecGov == InitGov /\ [][NextGov]_vars

\* ---- one governor pass, run alone, whose store operations can fail
NextGovFail ==
  \/ GovKeys(1)
  \/ \E blobOk \in BOOLEAN : GovMeasure(1, blobOk)
  \/ GovEvict(1)
  \/ GovFails(1)

SpecGovFail == InitGov /\ [][NextGovFail]_vars

\* ---- one clearVideoCache call, run alone from any store
StoredUrls == {1, 2, 3, 4}

ClearStores ==
  UNION { StoresOver(SortedSeq(S), {1, 3}, {NumToString(Clock0)}) : S \in SUBSET StoredUrls }

InitClear ==
  /\ store \in ClearStores
  /\ snap = store
  /\ clock = Clock0
  /\ ticks = 0
  /\ req = [r \in Reqs |-> IdleReq]
  /\ task = [r \in Reqs |-> IdleTask]
  /\ inv = IdleInv
  /\ oldStores = NoStores
  /\ act = IdleAct
  /\ msg = IdleMsg
  /\ page = IdlePage

NextClear ==
  \/ \E t \in Targets : ClearStart(t)
  \/ \E blobOk \in BOOLEAN : ClearMatch(blobOk)
  \/ ClearDelete

SpecClear == InitClear /\ [][NextClear]_vars

\* ---- one activation, from any set of stores left by earlier generations
\* names of earlier stores: 'hls-cache-v0', 'hls-cache-v10', 'hls-cache'
OldNames ==
  { SubSeq(CACHE_NAME, 1, 11) \o <<"0">>, CACHE_NAME \o <<"0">>, SubSeq(CACHE_NAME, 1, 9) }

OldContents == { <<>>, <<Entry(1, 1, NumToString(Clock0))>> }

OldStoreMaps == UNION { [S -> OldContents] : S \in SUBSET OldNames }

InitAct ==
  /\ store \in ClearStores
  /\ snap = store
  /\ clock = Clock0
  /\ ticks = 0
  /\ req = [r \in Reqs |-> IdleReq]
  /\ task = [r \in Reqs |-> IdleTask]
  /\ inv = IdleInv
  /\ oldStores \in OldStoreMaps
  /\ act = [IdleAct EXCEPT !.pc = "start"]
  /\ msg = IdleMsg
  /\ page = IdlePage

NextAct ==
  \/ \E cur \in BOOLEAN : ActivateKeys(cur)
  \/ \E n \in OldNames \cup {CACHE_NAME} : ActivateDelete(n)
  \/ ActivateClaim

SpecAct == InitAct /\ [][NextAct]_vars

\* ---- the message handler, one message at a time, from any store
MsgStores ==
  UNION { StoresOver(SortedSeq(S), Bodies, {NumToString(Clock0)}) : S \in SUBSET {1, 2, 3} }

InitMsg ==
  /\ store \in MsgStores
  /\ snap = store
  /\ clock = Clock0
  /\ ticks = 0
  /\ req = [r \in Reqs |-> IdleReq]
  /\ task = [r \in Reqs |-> IdleTask]
  /\ inv = IdleInv
  /\ oldStores = NoStores
  /\ act = IdleAct
  /\ msg = IdleMsg
  /\ page = IdlePage

NextMsg ==
  \/ \E type \in MsgTypes, port \in BOOLEAN, t \in MsgTargets \cup {0} : MsgReceive(type, port, t)
  \/ ClearAllDelete
  \/ ClearAllReply
  \/ ClearAllFails
  \/ ClearVideoCall
  \/ \E blobOk \in BOOLEAN : ClearMatch(blobOk)
  \/ ClearDelete
  \/ ClearVideoReply
  \/ ClearVideoFails
  \/ ClearVideoCatch
  \/ SizeKeys
  \/ \E blobOk \in BOOLEAN : SizeMeasure(blobOk)
  \/ SizeFails

SpecMsg == InitMsg /\ [][NextMsg]_vars

\* ---- the worker without failures, serving cacheable and other URLs
AllReqUrls == {1, 2, 6, 7}

NextPass ==
  \/ \E r \in Reqs, u \in AllReqUrls : Lookup(r, u)
  \/ \E r \in Reqs, u \in AllReqUrls : PassThrough(r, u)
  \/ \E r \in Reqs, o \in NetOutcomes : PassRespond(r, o)
  \/ \E r \in Reqs : ExpiryDelete(r)
  \/ \E r \in Reqs, o \in NetOutcomes, b \in NetBodies : NetRespond(r, o, b)
  \/ \E r \in Reqs : WriteBack(r, "stamped")
  \/ \E r \in Reqs, o \in NetOutcomes, b \in NetBodies : RefreshRespond(r, o, b)
  \/ \E r \in Reqs : RefreshPut(r, "stamped")
  \/ \E r \in Reqs : GovKeys(r)
  \/ \E r \in Reqs : GovMeasure(r, TRUE)
  \/ \E r \in Reqs : GovEvict(r)
  \/ \E d \in ClockSteps : Tick(d)

SpecPass == InitWarm /\ [][NextPass]_vars

\* ---- a CLEAR_PREVIOUS_VIDEO message handled while fetch events are served:
\* the worker without failures, over the store kept from an earlier run.
\* One message arrives, with a reply port; fetch events arrive until the
\* reply has been posted; the governor passes they start have not begun.
RaceTarget == 1

\* the one message of the run
RaceReceive == msg.n = 0 /\ MsgReceive("CLEAR_PREVIOUS_VIDEO", TRUE, RaceTarget)

\* a fetch event that arrives before the reply is posted
RaceLookup(r, u) == msg.pc # "settled" /\ Lookup(r, u)

NextRace ==
  \/ RaceReceive
  \/ ClearVideoCall
  \/ ClearMatch(TRUE)
  \/ ClearDelete
  \/ ClearVideoReply
  \/ \E r \in Reqs, u \in ReqUrls : RaceLookup(r, u)
  \/ \E r \in Reqs : ExpiryDelete(r)
  \/ \E r \in Reqs, o \in NetOutcomes, b \in NetBodies : NetRespond(r, o, b)
  \/ \E r \in Reqs : WriteBack(r, "stamped")
  \/ \E r \in Reqs, o \in NetOutcomes, b \in NetBodies : RefreshRespond(r, o, b)
  \/ \E r \in Reqs : RefreshPut(r, "stamped")
  \/ Tick(CACHE_EXPIRY)

SpecRace == InitWarm /\ [][NextRace]_vars

\* ---- the page's clearPreviousVideoCache call and the worker's handling of
\* its message.  A timer that is armed fires; nothing obliges the worker to
\* make progress.
NextPage ==
  \/ \E controller \in BOOLEAN, t \in MsgTargets : PageCall(controller, t)
  \/ PageMessageArrives
  \/ ClearVideoCall
  \/ \E blobOk \in BOOLEAN : ClearMatch(blobOk)
  \/ ClearDelete
  \/ ClearVideoReply
  \/ ClearVideoFails
  \/ ClearVideoCatch
  \/ PageDeliver
  \/ PageTimer

SpecPage == InitMsg /\ [][NextPage]_vars /\ WF_vars(PageTimer)

\* ---- the player component over page loads: localStorage may hold the URL
\* an earlier visit saved
InitPlayer ==
  /\ store = <<>>
  /\ clock = Clock0
  /\ ticks = 0
  /\ req = [r \in Reqs |-> IdleReq]
  /\ task = [r \in Reqs |-> IdleTask]
  /\ inv = IdleInv
  /\ snap = <<>>
  /\ oldStores = NoStores
  /\ act = IdleAct
  /\ msg = IdleMsg
  /\ \E l \in PlayUrls \cup {0}, s \in StorageStates, c \in BOOLEAN :
       page = [IdlePage EXCEPT !.ls = l, !.storage = s, !.controller = c]

NextPlayer ==
  \/ \E u \in PlayUrls \cup {0} : PlayerEffect(u)
  \/ PlayerReload
  \/ \E s \in StorageStates : StorageChange(s)
  \/ \E c \in BOOLEAN : ControllerChange(c)

SpecPlayer == InitPlayer /\ [][NextPlayer]_vars

\* ------------------------------------------------------------ claims
\* What the claims say of an entry found at lookup, stated from the stamp
\* and the clock reading, not through isCacheExpired.
StaleAt(e, now) == Len(e.time) = 0 \/ now - parseInt(e.time) > 7200000
FreshAt(e, now) == Len(e.time) # 0 /\ now - parseInt(e.time) <= 7200000

IsManifest(u) == Includes(Urls[u], <<".","m","3","u","8">>)

\* C1: a request whose stored entry is older than 7,200,000 ms, or has no
\* stamp, at lookup is answered only after a network fetch: by the network
\* response whenever the fetch yields one, by the stale entry only when the
\* fetch failed.
C1_StaleServedOnlyOnNetworkFailure ==
  \A r \in Reqs :
    LET q == req[r] IN
      (q.cached # <<>> /\ StaleAt(q.cached[1], q.now)) =>
        /\ q.result = "cache" => q.net = "fail"
        /\ q.result = "net" => q.net \in {"ok", "notok"}
        /\ q.net \in {"ok", "notok"} /\ q.pc = "done" => q.result = "net"

C1_Witness ==
  \E r \in Reqs :
    LET q == req[r] IN
      /\ q.cached # <<>>
      /\ Len(q.cached[1].time) # 0
      /\ q.now - parseInt(q.cached[1].time) > 7200000
      /\ q.net = "ok"
      /\ q.result = "net"

\* C2: a request whose stored entry has an age of at most 7,200,000 ms at
\* lookup (exactly 7,200,000 included) is answered with that entry without
\* waiting for the network; if the URL holds no '.m3u8' no fetch is issued
\* and the lookup leaves the store as it was.
C2_FreshHit ==
  \A r \in Reqs :
    LET q == req[r] IN
      (q.cached # <<>> /\ FreshAt(q.cached[1], q.now)) =>
        /\ q.pc = "done"
        /\ q.result = "cache"
        /\ q.net = "none"
        /\ ~IsManifest(q.url) => task[r].pc = "none"

C2_HitStep ==
  \A r \in Reqs :
    (req[r].pc = "idle" /\ req'[r].result = "cache" /\ ~IsManifest(req'[r].url))
      => store' = store

C2_FreshEntryReturned == []C2_FreshHit /\ [][C2_HitStep]_vars

C2_Witness ==
  \E r \in Reqs :
    LET q == req[r] IN
      /\ q.cached # <<>>
      /\ Len(q.cached[1].time) # 0
      /\ q.now - parseInt(q.cached[1].time) = 7200000
      /\ ~IsManifest(q.url)
      /\ q.result = "cache"

\* C3: when the network fetch of a cacheable request fails, the entry found
\* at lookup is returned if there was one, and the network's failure is
\* propagated if there was none.
C3_NetworkFailure ==
  \A r \in Reqs :
    LET q == req[r] IN
      q.net = "fail" =>
        IF q.cached # <<>>
        THEN q.result = "cache" /\ q.error = "none"
        ELSE q.result = "error" /\ q.error = "net"

C3_Witness ==
  \E r \in Reqs :
    LET q == req[r] IN
      /\ q.net = "fail"
      /\ q.cached # <<>>
      /\ q.result = "cache"
      /\ Match(store, q.url) = <<>>

\* C4 as stated: when a miss is answered with a successful status, then as
\* the handler completes the store holds an entry for the key, stamped with
\* the clock value read for the write and fresh for a request that follows
\* at once, and the caller has the network response.
C4_Step(r) == req[r].pc = "put" /\ req'[r].pc = "done"

C4_Original ==
  [][\A r \in Reqs :
       C4_Step(r) =>
         LET c == Match(store', req[r].url) IN
           /\ req'[r].result = "net"
           /\ c # <<>>
           /\ c[1].time = req[r].stamp
           /\ FreshAt(c[1], clock')]_vars

\* C4 as amended: the caller has the network response in every case; the
\* stamp is the clock value read when the response arrived; if the stamped
\* put succeeds the store holds the payload under that stamp as the handler
\* completes; if only the fallback put succeeds it holds the payload without
\* a stamp; if both fail the write leaves the store as it was.
C4_StampIsClock ==
  \A r \in Reqs :
    (req[r].pc = "fetch" /\ req'[r].pc = "put") => parseInt(req'[r].stamp) = clock

C4_WriteStep ==
  \A r \in Reqs :
    C4_Step(r) =>
      LET c == Match(store', req[r].url) IN
        /\ req'[r].result = "net"
        /\ req'[r].wrote = "stamped" =>
             /\ c = <<Entry(req[r].url, req[r].body, req[r].stamp)>>
             /\ parseInt(c[1].time) <= clock'
             /\ clock' - parseInt(c[1].time) <= 7200000 => ~isCacheExpired(c[1], clock')
        /\ req'[r].wrote = "fallback" =>
             c = <<Entry(req[r].url, req[r].body, <<>>)>>
        /\ req'[r].wrote = "failed" => store' = store

C4_WriteBackAmended == [][C4_StampIsClock /\ C4_WriteStep]_vars

C4_Witness ==
  \E r \in Reqs :
    LET q == req[r] IN
      /\ q.pc = "done"
      /\ q.cached # <<>>
      /\ q.net = "ok"
      /\ q.wrote = "stamped"
      /\ Match(store, q.url) = <<Entry(q.url, q.body, q.stamp)>>
      /\ parseInt(q.stamp) = clock

\* C5: every entry in the store carries a sw-cache-time stamp, whichever
\* write path of cacheWithTimestamp stored it.
C5_EveryEntryStamped ==
  \A i \in 1..Len(store) : Len(store[i].time) # 0

\* C6 as stated: a fresh hit on a '.m3u8' URL returns the cached entry and
\* issues a background fetch; a successful fetch overwrites the entry and
\* its stamp strictly increases; a failed or unsuccessful fetch leaves the
\* entry as it was and tells the caller nothing.
C6_HitStartsRefresh ==
  \A r \in Reqs :
    LET q == req[r] IN
      (q.cached # <<>> /\ FreshAt(q.cached[1], q.now) /\ IsManifest(q.url)) =>
        q.result = "cache" /\ task[r].pc \in {"rfetch", "rput", "done"}

C6_RefreshAnswered(r) == task[r].pc = "rfetch" /\ task'[r].pc # "rfetch"
C6_RefreshWritten(r) == task[r].pc = "rput" /\ task'[r].pc = "done"

C6_NoWriteStep ==
  \A r \in Reqs :
    (C6_RefreshAnswered(r) /\ task'[r].pc = "done") =>
      /\ task'[r].out \in {"fail", "notok"}
      /\ store' = store
      /\ req' = req

C6_StrictStep ==
  \A r \in Reqs :
    C6_RefreshWritten(r) =>
      LET c == Match(store', req[r].url) IN
        /\ c # <<>>
        /\ c[1].body = task[r].body
        /\ Len(c[1].time) # 0
        /\ parseInt(c[1].time) > parseInt(req[r].cached[1].time)

C6_Original == []C6_HitStartsRefresh /\ [][C6_NoWriteStep /\ C6_StrictStep]_vars

\* C6 as amended: the stamp of the refresh is the clock value read when its
\* response arrived; if the stamped put succeeds the entry is overwritten
\* under that stamp, which is never lower than the stamp of the entry that
\* was hit; if only the fallback put succeeds the entry is overwritten
\* without a stamp; if both puts fail, as when the fetch fails or is
\* unsuccessful, the store is left as it was.  The caller is told nothing.
C6_StampStep ==
  \A r \in Reqs :
    (C6_RefreshAnswered(r) /\ task'[r].pc = "rput") =>
      /\ parseInt(task'[r].stamp) = clock
      /\ store' = store
      /\ req' = req

C6_WriteStep ==
  \A r \in Reqs :
    C6_RefreshWritten(r) =>
      LET c == Match(store', req[r].url) IN
        /\ req' = req
        /\ task'[r].out = "stamped" =>
             /\ c = <<Entry(req[r].url, task[r].body, task[r].stamp)>>
             /\ parseInt(c[1].time) >= parseInt(req[r].cached[1].time)
        /\ task'[r].out = "fallback" =>
             c = <<Entry(req[r].url, task[r].body, <<>>)>>
        /\ task'[r].out = "failed" => store' = store

C6_RefreshAmended ==
  []C6_HitStartsRefresh /\ [][C6_NoWriteStep /\ C6_StampStep /\ C6_WriteStep]_vars

C6_Witness ==
  \E r \in Reqs :
    /\ task[r].pc = "done"
    /\ task[r].out = "stamped"
    /\ req[r].result = "cache"
    /\ task[r].body # req[r].cached[1].body
    /\ parseInt(task[r].stamp) > parseInt(req[r].cached[1].time)
    /\ Match(store, req[r].url) = <<Entry(req[r].url, task[r].body, task[r].stamp)>>

\* ---- C7: a governor pass run alone (SpecGov)
UrlsOf(s) == { s[i].url : i \in 1..Len(s) }
C7_Deleted == UrlsOf(snap) \ UrlsOf(store)
C7_Kept == UrlsOf(store)

\* the stamp the spec orders by: the header's number, 0 without a header
C7_StampOf(u) ==
  LET e == snap[CHOOSE i \in 1..Len(snap) : snap[i].url = u]
  IN IF Len(e.time) = 0 THEN 0 ELSE parseInt(e.time)

C7_ActualSize(u) == BodySize[snap[CHOOSE i \in 1..Len(snap) : snap[i].url = u].body]

\* the size the pass measured for a key
C7_MeasuredSize(u) ==
  LET it == task[1].items IN it[CHOOSE j \in 1..Len(it) : it[j].url = u].size

RECURSIVE C7_Sum(_, _)
C7_Sum(f(_), S) ==
  IF S = {} THEN 0
  ELSE LET u == CHOOSE x \in S : TRUE IN f(u) + C7_Sum(f, S \ {u})

C7_Finished == task[1].pc = "done"

\* The deleted entries are a prefix of the oldest-first order, the shortest
\* one that brings the total, summed with Size, to 80% of the ceiling; what
\* is kept is untouched.
C7_PrefixEviction(Size(_)) ==
  /\ C7_Sum(Size, C7_Kept) <= 41943040
  /\ \A d \in C7_Deleted, k \in C7_Kept : C7_StampOf(d) <= C7_StampOf(k)
  /\ \E d \in C7_Deleted :
       /\ \A d2 \in C7_Deleted : C7_StampOf(d2) <= C7_StampOf(d)
       /\ C7_Sum(Size, C7_Kept) + Size(d) > 41943040
  /\ store = SelectSeq(snap, LAMBDA e : e.url \in C7_Kept)

\* C7 as stated: from a store whose entry sizes sum to more than 52,428,800
\* bytes, a pass run alone leaves at most 41,943,040 bytes, and deletes
\* exactly the shortest oldest-first prefix that reaches that bound.
C7_Original ==
  (C7_Finished /\ C7_Sum(C7_ActualSize, UrlsOf(snap)) > 52428800) =>
    C7_PrefixEviction(C7_ActualSize)

\* C7 as amended: the same, with every size taken as the pass measures it:
\* the payload's byte length, or, when response.blob() fails, the declared
\* content-length (0 without one).
C7_PrefixEvictionMeasured ==
  (C7_Finished /\ C7_Sum(C7_MeasuredSize, UrlsOf(snap)) > 52428800) =>
    C7_PrefixEviction(C7_MeasuredSize)

C7_Witness ==
  /\ C7_Finished
  /\ C7_Sum(C7_MeasuredSize, UrlsOf(snap)) > 52428800
  /\ Cardinality(C7_Deleted) = 2
  /\ Cardinality(C7_Kept) = 1
  /\ \E d \in C7_Deleted : C7_StampOf(d) < C7_StampOf(CHOOSE k \in C7_Kept : TRUE)
  /\ \E j \in 1..Len(snap) : j > 1 /\ snap[j].url \in C7_Deleted /\ snap[1].url \in C7_Kept

\* C8: whenever no request, background refresh or governor pass is in
\* flight, the payload sizes of the stored entries sum to at most
\* 52,428,800 bytes.
C8_Quiet ==
  \A r \in Reqs : req[r].pc \in {"idle", "done"} /\ task[r].pc \in {"none", "done"}

C8_CeilingWhenQuiet == C8_Quiet => SumSizes(store) <= 52428800

\* ---- C9, C10: a clearVideoCache call run alone (SpecClear)
ClearReturned == inv.pc = "done"
ClearBase == getVideoBasePath(Urls[inv.target])
SameGroup(e) == getVideoBasePath(Urls[e.url]) = ClearBase

\* C9 as stated: invalidating a video URL deletes exactly the stored
\* entries whose derived base path equals the target's, and leaves every
\* entry of any other group untouched, for all stores and targets (taken
\* here for absolute target URLs only, where it already fails).
C9_Original ==
  (ClearReturned /\ UrlValid(Urls[inv.target])) =>
    store = SelectSeq(snap, LAMBDA e : ~SameGroup(e))

\* C9 as amended: it deletes every entry of the target's group, and leaves
\* untouched every entry of another group whose URL does not hold the
\* target's base path as a substring.
C9_GroupDeletedOthersKept ==
  ClearReturned =>
    /\ \A i \in 1..Len(snap) : SameGroup(snap[i]) => snap[i].url \notin UrlsOf(store)
    /\ \A i \in 1..Len(snap) :
         (~SameGroup(snap[i]) /\ ~Includes(Urls[snap[i].url], ClearBase)) =>
           Match(store, snap[i].url) = <<snap[i]>>
    /\ UrlsOf(store) \subseteq UrlsOf(snap)

\* keys under /a/ and /b/, an /a/ URL invalidated: only /b/ is left
C9_Witness ==
  /\ ClearReturned
  /\ inv.target = 1
  /\ UrlsOf(snap) = {1, 2, 3}
  /\ store = SelectSeq(snap, LAMBDA e : e.url = 3)
  /\ inv.deletedCount = 2

\* C10: clearVideoCache deletes a stored key if and only if its URL holds
\* the target's base path as a substring or its own base path equals the
\* target's; every other key is still there, payload and stamp unchanged,
\* when it returns.
C10_DeletesExactlySelected ==
  ClearReturned =>
    store = SelectSeq(snap, LAMBDA e :
              ~(Includes(Urls[e.url], ClearBase) \/ SameGroup(e)))

C10_Witness ==
  /\ ClearReturned
  /\ inv.target = 2
  /\ UrlsOf(snap) = {1, 2, 3, 4}
  /\ UrlsOf(store) = {3}
  /\ inv.deletedCount = 3

\* ---- C11: one activation (SpecAct)
C11_Current == <<"h","l","s","-","c","a","c","h","e","-","v","1">>

\* C11: on activation every store whose name differs from 'hls-cache-v1' is
\* deleted in full and no entry under the current name is deleted or
\* modified: while activation runs the current store stays as it was, a
\* store whose deletion has completed is gone, and once activation has
\* completed no store of another name exists.
C11_GenerationRollover ==
  /\ store = snap
  /\ \A n \in act.names :
       (n # C11_Current /\ n \notin act.pending) => n \notin DOMAIN oldStores
  /\ act.pc \in {"claim", "done"} =>
       /\ DOMAIN oldStores = {}
       /\ \A n \in act.names : n # C11_Current => n \notin act.pending

C11_Witness ==
  /\ act.pc = "done"
  /\ Cardinality(act.names) = 4
  /\ C11_Current \in act.names
  /\ Len(store) = 2
  /\ DOMAIN oldStores = {}

\* ---- C12, C13, C14: the message handler, one message at a time (SpecMsg)
C12_Replied == msg.type = "GET_CACHE_SIZE" /\ msg.replies # <<>>

\* C12 as stated: GET_CACHE_SIZE replies {size, count} with the number of
\* entries in the store and the sum of their payload sizes at the time of
\* the query, and leaves every stored entry unchanged.
C12_Original ==
  /\ msg.type = "GET_CACHE_SIZE" => store = snap
  /\ C12_Replied =>
       msg.replies = <<[size |-> SumSizes(snap), count |-> Len(snap)]>>

\* what an entry declares in its content-length header, 0 without one
C12_Declared(e) ==
  IF e.body = 1 THEN 1000 ELSE IF e.body = 3 THEN 31457280 ELSE 0

RECURSIVE C12_SumMeasured(_)
\* the entries' sizes summed: the payload's byte length, the declared size
\* for the entries whose exact measurement failed
C12_SumMeasured(s) ==
  IF Len(s) = 0 THEN 0
  ELSE (IF Head(s).url \in msg.est THEN C12_Declared(Head(s)) ELSE BodySize[Head(s).body])
       + C12_SumMeasured(Tail(s))

\* C12 as amended: count is the number of entries and size the sum of their
\* sizes as the query measures them - the payload's byte length, or the
\* declared content-length (0 without one) when response.blob() fails; an
\* empty store gives {0, 0}, one 1,000-byte entry {1000, 1}; the store is
\* left unchanged.
C12_SizeAsMeasured ==
  /\ msg.type = "GET_CACHE_SIZE" => store = snap
  /\ C12_Replied =>
       msg.replies = <<[size |-> C12_SumMeasured(snap), count |-> Len(snap)]>>
  /\ (C12_Replied /\ snap = <<>>) => msg.replies = <<[size |-> 0, count |-> 0]>>
  /\ (C12_Replied /\ Len(snap) = 1 /\ BodySize[snap[1].body] = 1000) =>
       msg.replies = <<[size |-> 1000, count |-> 1]>>

C12_Witness ==
  /\ C12_Replied
  /\ Len(snap) = 3
  /\ msg.est # {}
  /\ \E i \in 1..3 : snap[i].url \in msg.est /\ snap[i].body = 3
  /\ msg.replies[1].size = SumSizes(snap)

\* C13: after CLEAR_CACHE has been handled with no request in flight the
\* store holds no entries and a following GET_CACHE_SIZE replies
\* {size: 0, count: 0}; with a reply port {success: true} is posted exactly
\* once and only after the deletion has completed, without one nothing is
\* posted.
C13_ClearAll ==
  /\ (msg.type = "CLEAR_CACHE" /\ msg.replies # <<>>) =>
       /\ msg.replies = <<[success |-> TRUE]>>
       /\ msg.port
       /\ store = <<>>
  /\ (msg.type = "CLEAR_CACHE" /\ msg.pc = "settled" /\ msg.out = "ok") =>
       /\ store = <<>>
       /\ msg.port => Len(msg.replies) = 1
  /\ (msg.type = "GET_CACHE_SIZE" /\ msg.prev.type = "CLEAR_CACHE"
        /\ msg.prev.out = "ok" /\ msg.replies # <<>>) =>
       msg.replies = <<[size |-> 0, count |-> 0]>>

C13_Witness ==
  /\ msg.type = "GET_CACHE_SIZE"
  /\ msg.prev.type = "CLEAR_CACHE"
  /\ msg.prev.out = "ok"
  /\ msg.prev.count = 3
  /\ msg.replies = <<[size |-> 0, count |-> 0]>>

\* C14: each of CLEAR_CACHE, CLEAR_PREVIOUS_VIDEO and GET_CACHE_SIZE sent
\* with a reply port has exactly one reply posted once its store operation
\* has completed or failed; a failed clear command replies success: false.
C14_Commands == {"CLEAR_CACHE", "CLEAR_PREVIOUS_VIDEO", "GET_CACHE_SIZE"}

C14_AlwaysOneReply ==
  (msg.type \in C14_Commands /\ msg.port /\ msg.pc = "settled") =>
    /\ Len(msg.replies) = 1
    /\ (msg.out = "error" /\ msg.type # "GET_CACHE_SIZE") =>
         msg.replies[1].success = FALSE

\* ---- C15: cacheable and other requests side by side (SpecPass)
C15_HasMarker(url) ==
  \/ Includes(url, <<".","m","3","u","8">>)
  \/ Includes(url, <<".","t","s">>)
  \/ Includes(url, <<".","m","p","4">>)
  \/ Includes(url, <<".","w","e","b","m">>)

C15_Other(r) == req[r].url # 0 /\ ~C15_HasMarker(Urls[req[r].url])

C15_OnlyForwarded ==
  \A r \in Reqs :
    C15_Other(r) =>
      /\ req[r].pc \in {"pass", "done"}
      /\ req[r].cached = <<>>
      /\ req[r].wrote = "none"
      /\ task[r] = IdleTask
      /\ req[r].pc = "done" =>
           IF req[r].net = "fail" THEN req[r].result = "error"
           ELSE req[r].result = "net"

C15_ForwardStep ==
  \A r \in Reqs :
    (req'[r] # req[r] /\ req'[r].url # 0 /\ ~C15_HasMarker(Urls[req'[r].url])) =>
      store' = store /\ task' = task

\* C15: shouldCache(url) is true exactly when the URL holds '.m3u8', '.ts',
\* '.mp4' or '.webm'; a request for which it is false is only forwarded to
\* the network: its handler looks nothing up, writes and deletes nothing,
\* starts no governor pass or refresh, and its steps leave the store as it
\* was.
C15_PassThrough ==
  /\ [](\A u \in 1..Len(Urls) : shouldCache(Urls[u]) <=> C15_HasMarker(Urls[u]))
  /\ []C15_OnlyForwarded
  /\ [][C15_ForwardStep]_vars

C15_Witness ==
  /\ req[1].pc = "done" /\ req[1].url = 7 /\ req[1].result = "net"
  /\ req[2].pc = "done" /\ req[2].url = 6 /\ req[2].result = "error"
  /\ store = WarmStore

\* C16: in a governor pass that evicts, a failing deletion is skipped and
\* the pass goes on: the eviction loop ends only with the total at or below
\* 41,943,040 bytes, or after its last item.
C16_EvictionGoesOn ==
  [][(task[1].pc = "gevict" /\ task'[1].pc = "done") =>
       \/ task'[1].total <= 41943040
       \/ task'[1].i > Len(task[1].items)]_vars

\* ---- C17: the request path and the governor pass it starts (Spec)
C17_PassPcs == {"gkeys", "gmeasure", "gevict"}

C17_AnsweredBeforePass ==
  \A r \in Reqs :
    (task[r].pc \in C17_PassPcs \/ task[r].out = "error") =>
      /\ req[r].pc = "done"
      /\ req[r].result = "net"
      /\ req[r].error = "none"

C17_PassStep ==
  \A r \in Reqs :
    (task[r].pc \in C17_PassPcs /\ task'[r] # task[r]) =>
      /\ req' = req
      /\ \A r2 \in Reqs : r2 # r => task'[r2] = task[r2]

\* C17: the response of a cacheable miss is delivered without waiting for
\* the governor pass it triggered: whenever the pass is in flight, or has
\* failed, its request is already answered with the network response; no
\* step of a pass, a failing one included, changes any request or any other
\* handler's task.
C17_FireAndForget == []C17_AnsweredBeforePass /\ [][C17_PassStep]_vars

C17_Witness ==
  /\ req[1].pc = "done" /\ req[1].result = "net"
  /\ task[1].pc = "done" /\ task[1].out = "error"
  /\ req[2].pc = "done" /\ req[2].result = "net"
  /\ task[2].pc = "gkeys"

\* C18: a governor pass is started after every successful write of an
\* entry into the store, the write-back after a miss and the overwrite of a
\* manifest background refresh alike.
C18_Written == {"stamped", "fallback"}

C18_PassAfterEveryWrite ==
  [][\A r \in Reqs :
       /\ (req[r].pc = "put" /\ req'[r].wrote \in C18_Written) =>
            task'[r].pc = "gkeys"
       /\ (task[r].pc = "rput" /\ task'[r].out \in C18_Written) =>
            task'[r].pc = "gkeys"]_vars

\* C19: the handler of a cacheable request fails only when the network
\* fetch failed and the lookup found no entry for the key; in every other
\* execution the caller receives a response.
C19_FailsOnlyWithoutNetworkAndEntry ==
  \A r \in Reqs :
    /\ req[r].result = "error" => (req[r].net = "fail" /\ req[r].cached = <<>>)
    /\ req[r].pc = "done" => req[r].result \in {"net", "cache", "error"}

\* C20: if both puts of the write-back fail, cacheWithTimestamp does not
\* throw: the request returns the network response, and the write leaves
\* the store as it was, with no new entry for the key.
C20_Step(r) == req[r].pc = "put" /\ req'[r].pc # "put" /\ req'[r].wrote = "failed"

C20_FailedWriteSwallowed ==
  [][\A r \in Reqs :
       C20_Step(r) =>
         /\ req'[r].pc = "done"
         /\ req'[r].result = "net"
         /\ req'[r].error = "none"
         /\ store' = store]_vars

C20_Witness ==
  \E r \in Reqs :
    /\ req[r].pc = "done"
    /\ req[r].cached # <<>>
    /\ req[r].wrote = "failed"
    /\ req[r].result = "net"
    /\ Match(store, req[r].url) = <<>>

\* ---- C21: an expired entry and the request that follows (SpecWarm)
C21_DeletedBeforeFetch ==
  \A r \in Reqs : req[r].pc = "delete" => req[r].net = "none"

C21_DeleteStep ==
  \A r \in Reqs :
    (req[r].pc = "delete" /\ req'[r].pc = "fetch") =>
      Match(store', req[r].url) = <<>> /\ req'[r].net = "none"

C21_FailStep ==
  \A r \in Reqs :
    (req[r].pc = "fetch" /\ req[r].cached # <<>> /\ req'[r].net = "fail") =>
      req'[r].result = "cache" /\ store' = store

C21_StaleServed(r) ==
  req[r].pc = "done" /\ req[r].net = "fail" /\ req[r].result = "cache"

C21_NextStep ==
  (C21_StaleServed(1) /\ req[2].pc = "idle" /\ req'[2].pc # "idle"
     /\ req'[2].url = req[1].url) =>
    Match(store, req[1].url) = <<>> /\ req'[2].cached = <<>>

C21_NextFails ==
  \A r \in Reqs :
    (req[r].cached = <<>> /\ req[r].net = "fail") => req[r].result = "error"

\* C21: an expired entry found at lookup is deleted from the store before
\* the network fetch is issued; if the fetch fails the stale copy is served
\* and the store holds no entry for the key, so that the request that
\* follows finds none and, with the network still failing, fails.
C21_ExpiredEntryDeleted ==
  /\ [](C21_DeletedBeforeFetch /\ C21_NextFails)
  /\ [][C21_DeleteStep /\ C21_FailStep /\ C21_NextStep]_vars

C21_Witness ==
  /\ C21_StaleServed(1)
  /\ req[2].url = req[1].url
  /\ req[2].cached = <<>>
  /\ req[2].net = "fail"
  /\ req[2].result = "error"
  /\ req[2].error = "net"

\* ---- C22: a governor pass run alone (SpecGov)
C22_MeasuredTotal == C7_Sum(C7_MeasuredSize, UrlsOf(snap))

\* C22: a governor pass deletes nothing when the measured total is at most
\* 52,428,800 bytes, also when it lies between 41,943,040 and 52,428,800;
\* it deletes only when the total is strictly above 52,428,800.
C22_NoEvictionAtOrBelowCeiling ==
  /\ (C7_Finished /\ C22_MeasuredTotal <= 52428800) => store = snap
  /\ store # snap =>
       (task[1].pc \in {"gevict", "done"} /\ C22_MeasuredTotal > 52428800)

C22_Witness ==
  /\ C7_Finished
  /\ C22_MeasuredTotal = 52428800
  /\ Len(snap) = 2
  /\ store = snap

\* ---- C23: two misses for the same key (Spec)
C23_Misses(r, o) ==
  /\ r # o
  /\ req[r].url = req[o].url
  /\ req[r].cached = <<>> /\ req[o].cached = <<>>
  /\ req[r].net = "ok" /\ req[o].net = "ok"

\* handler r completes its write while handler o has already completed
C23_LastStep(r, o) ==
  C23_Misses(r, o) /\ req[r].pc = "put" /\ req'[r].pc = "done" /\ req[o].pc = "done"

C23_OneEntryPerKey ==
  \A i, j \in 1..Len(store) : store[i].url = store[j].url => i = j

C23_OwnFetch ==
  \A r \in Reqs :
    (req[r].pc = "done" /\ req[r].cached = <<>> /\ req[r].net = "ok") =>
      req[r].result = "net"

\* C23 as stated: two misses for the same key each fetch and each receive
\* their network response; when both handlers have completed the store
\* holds exactly one entry for the key, the one of the put that completed
\* last.
C23_Original ==
  /\ [](C23_OneEntryPerKey /\ C23_OwnFetch)
  /\ [][\A r, o \in Reqs :
          C23_LastStep(r, o) =>
            LET c == Match(store', req[r].url) IN
              c # <<>> /\ c[1].body = req[r].body]_vars

\* no handler other than r and o has started
C23_Alone(r, o) == \A x \in Reqs \ {r, o} : req[x].pc = "idle"

\* C23 as amended: each caller receives its own network response and the
\* store never holds two entries for a key; when the later of the two
\* writes completes, the store holds that handler's entry if its stamped or
\* fallback put succeeded, and what it held for the key before if the write
\* failed: with no other handler running that is the earlier handler's
\* entry if that write succeeded, and no entry if both writes failed.
C23_LastSuccessfulPutWins ==
  /\ [](C23_OneEntryPerKey /\ C23_OwnFetch)
  /\ [][\A r, o \in Reqs :
          C23_LastStep(r, o) =>
            LET c == Match(store', req[r].url) IN
              /\ req'[r].result = "net" /\ req[o].result = "net"
              /\ req'[r].wrote = "stamped" =>
                   c = <<Entry(req[r].url, req[r].body, req[r].stamp)>>
              /\ req'[r].wrote = "fallback" =>
                   c = <<Entry(req[r].url, req[r].body, <<>>)>>
              /\ req'[r].wrote = "failed" => c = Match(store, req[r].url)
              /\ (C23_Alone(r, o) /\ req'[r].wrote = "failed"
                    /\ req[o].wrote = "stamped") =>
                   c = <<Entry(req[o].url, req[o].body, req[o].stamp)>>
              /\ (C23_Alone(r, o) /\ req'[r].wrote = "failed"
                    /\ req[o].wrote = "fallback") =>
                   c = <<Entry(req[o].url, req[o].body, <<>>)>>
              /\ (C23_Alone(r, o) /\ req'[r].wrote = "failed"
                    /\ req[o].wrote = "failed") =>
                   c = <<>>]_vars

\* both writes succeeded, and the handler that began first wrote last
C23_Witness ==
  /\ req[1].pc = "done" /\ req[2].pc = "done"
  /\ req[1].url = req[2].url
  /\ req[1].cached = <<>> /\ req[2].cached = <<>>
  /\ req[1].wrote = "stamped" /\ req[2].wrote = "stamped"
  /\ req[1].body # req[2].body
  /\ store = <<Entry(req[1].url, req[1].body, req[1].stamp)>>

\* ---- C24: an invalidation interleaved with fetch handlers (SpecRace)
\* C24: the deletedCount and deletedSize of an invalidation are the number
\* and summed payload size of the entries it removed, also when another
\* deletion removes a selected key after the keys were enumerated: a size
\* is added only for an entry that is there, a deletion is counted only
\* when it removes an entry, and that entry has the size that was added.
C24_ReportsWhatItRemoved ==
  [][/\ (inv.pc = "match" /\ inv'.pc = "delete") =>
          LET c == Match(store, inv.keys[inv.i]) IN
            inv'.deletedSize - inv.deletedSize =
              IF c = <<>> THEN 0 ELSE BodySize[c[1].body]
     /\ (inv.pc = "delete" /\ inv'.deletedCount = inv.deletedCount + 1) =>
          Match(store, inv.keys[inv.i]) # <<>>]_vars

\* C30: once the reply to CLEAR_PREVIOUS_VIDEO has been posted the store
\* holds no entry of the invalidated video group until a request issued
\* after the reply writes one, also when a miss fetch or a manifest refresh
\* for the group was in flight while the command ran.  (In SpecRace no
\* request is issued after the reply.)
C30_NoGroupEntryAfterReply ==
  (msg.type = "CLEAR_PREVIOUS_VIDEO" /\ msg.replies # <<>>) =>
    \A i \in 1..Len(store) :
      getVideoBasePath(Urls[store[i].url]) # getVideoBasePath(Urls[msg.url])

\* C25: during activation clients.claim() is invoked only after every
\* store of another name has been deleted, never while one still exists,
\* and once per activation.
C25_ClaimAfterRollover ==
  /\ act.claimed <= 1
  /\ act.pc = "done" <=> act.claimed = 1
  /\ act.pc \in {"start", "deleting"} => act.claimed = 0
  /\ (act.pc = "claim" \/ act.claimed = 1) =>
       /\ act.pending = {}
       /\ \A n \in DOMAIN oldStores : n = C11_Current

C25_Witness ==
  /\ act.claimed = 1
  /\ Cardinality(act.names) = 4
  /\ snap # <<>>
  /\ store = snap

\* ---- C26: the page's clearPreviousVideoCache (SpecPage)
C26_HowResolved ==
  /\ page.rejected = FALSE
  /\ page.pc = "resolved" => page.by \in {"nocontroller", "reply", "timer"}
  /\ page.by = "nocontroller" => (page.timer = "none" /\ msg.n = 0)
  /\ page.by = "reply" => page.delivered >= 1
  /\ page.by = "timer" => page.timer = "fired"
  /\ (page.delivered >= 1 \/ page.timer = "fired") => page.pc = "resolved"

C26_SettledOnce ==
  page.pc = "resolved" => (page'.pc = "resolved" /\ page'.by = page.by)

\* C26: clearPreviousVideoCache always eventually resolves and never
\* rejects: at once without a controller, on the first reply (success or
\* failure) otherwise, and through its 5-second timer when no reply
\* arrives; a reply after the timeout, or the timer after a reply, changes
\* nothing.
C26_AlwaysResolves ==
  /\ (page.pc = "waiting") ~> (page.pc = "resolved")
  /\ []C26_HowResolved
  /\ [][C26_SettledOnce]_vars

\* resolved by the timer, a failure reply arriving afterwards
C26_Witness ==
  /\ page.pc = "resolved"
  /\ page.by = "timer"
  /\ page.delivered = 1
  /\ msg.replies[1].success = FALSE

\* ---- C27, C28: a governor pass run alone (SpecGov)
C27_MeasureStep ==
  (task[1].pc = "gmeasure" /\ task'[1] # task[1]) =>
    LET t == task[1]
        e == Match(store, t.keys[t.i])[1]
        new == task'[1].items
        size == task'[1].total - t.total
    IN /\ size \in {BodySize[e.body], C12_Declared(e)}
       /\ (t.out # "estimated" /\ task'[1].out = "estimated") => size = C12_Declared(e)
       /\ t.out = task'[1].out => size = BodySize[e.body] \/ t.out = "estimated"
       /\ \E j \in 1..Len(new) : new[j].url = e.url /\ new[j].size = size
       /\ IF t.i < Len(t.keys)
          THEN task'[1].pc = "gmeasure" /\ task'[1].i = t.i + 1
          ELSE IF task'[1].total > 52428800
          THEN task'[1].pc = "gevict"
          ELSE task'[1].pc = "done"

C27_AllMeasured ==
  task[1].pc \in {"gevict", "done"} =>
    { task[1].items[j].url : j \in 1..Len(task[1].items) } = UrlsOf(snap)

\* C27: when exact measurement of an entry fails in a governor pass, the
\* pass takes the entry's declared content-length (0 when absent) as its
\* size, goes on to measure every remaining key and runs the eviction step.
C27_MeasurementFailureTolerated ==
  []C27_AllMeasured /\ [][C27_MeasureStep]_vars

C27_Witness ==
  /\ C7_Finished
  /\ task[1].out = "estimated"
  /\ Len(snap) = 3
  /\ \E j \in 1..3 : task[1].items[j].size = 0 /\ C7_ActualSize(task[1].items[j].url) = 20971520
  /\ store # snap

C28_Unstamped(u) == Len(snap[CHOOSE i \in 1..Len(snap) : snap[i].url = u].time) = 0

\* C28: in a governor pass that evicts, an entry without a stamp is ordered
\* as the oldest: no stamped entry is deleted while an unstamped entry of
\* the same pass is still kept.
C28_UnstampedEvictedFirst ==
  \A d \in C7_Deleted, k \in C7_Kept : ~(~C28_Unstamped(d) /\ C28_Unstamped(k))

C28_Witness ==
  /\ C7_Finished
  /\ \E i, j \in 1..Len(snap) :
       /\ i < j
       /\ Len(snap[i].time) # 0 /\ snap[i].url \in C7_Kept
       /\ Len(snap[j].time) = 0 /\ snap[j].url \in C7_Deleted

\* ---- C29: a non-successful status (Spec)
C29_NotOk ==
  \A r \in Reqs :
    req[r].net = "notok" =>
      /\ req[r].pc = "done"
      /\ req[r].result = "net"
      /\ req[r].wrote = "none"
      /\ task[r].pc = "none"

C29_NotOkStep ==
  \A r \in Reqs :
    (req[r].pc = "fetch" /\ req'[r].net = "notok") =>
      store' = store /\ task' = task

\* C29: when the network answers a cacheable miss with a non-successful
\* status, that response is returned as it is, nothing is written, no
\* governor pass is started, and a stale entry found at lookup is not
\* served in its place.
C29_NotOkReturnedAsIs == []C29_NotOk /\ [][C29_NotOkStep]_vars

C29_Witness ==
  \E r \in Reqs :
    /\ req[r].net = "notok"
    /\ req[r].cached # <<>>
    /\ req[r].result = "net"
    /\ Match(store, req[r].url) = <<>>

\* ---- C31: overlapping writes of one key (SpecWarm)
\* the stamp a store holds for a key; an entry without one counts as 0
C31_StampOf(s, u) == ItemTime(Match(s, u)[1])

\* C31: for each key the freshness stamp held in the store never decreases
\* from one overwrite to the next, also when two writes of the key overlap:
\* a step that replaces an entry leaves one whose stamp is at least the
\* stamp of the entry it replaced.
C31_StampNeverDecreases ==
  [][\A u \in ReqUrls :
       (Match(store, u) # <<>> /\ Match(store', u) # <<>>) =>
         C31_StampOf(store', u) >= C31_StampOf(store, u)]_vars

\* ---- C32: a governor pass beside a re-fetch (SpecWarm)
\* C32: a governor pass deletes an entry only while the size and the stamp
\* it read during enumeration still describe the stored entry: it never
\* deletes an entry that a re-fetch or a background refresh wrote with a
\* newer stamp after the pass measured it.
C32_DeletesWhatItMeasured ==
  [][\A r \in Reqs :
       (task[r].pc = "gevict" /\ task'[r].i = task[r].i + 1 /\ store' # store) =>
         LET item == task[r].items[task[r].i]
             c == Match(store, item.url)
         IN /\ ItemTime(c[1]) = item.time
            /\ BodySize[c[1].body] = item.size]_vars

\* ---- C33: the player's effect (SpecPlayer)
\* a step of the effect that was given a url
C33_EffectStep == page'.runs = page.runs + 1 /\ page'.prop # 0

\* the recorded URL the claim names: the ref's, else the stored one
C33_Recorded(p) == IF p.ref # 0 THEN p.ref ELSE p.ls

\* C33 as stated: an effect run posts CLEAR_PREVIOUS_VIDEO with the
\* recorded URL (ref, else localStorage) exactly when one exists and
\* differs from the new URL, and afterwards the new URL is the recorded one.
C33_Original ==
  [][C33_EffectStep =>
       LET last == C33_Recorded(page)
           u == page'.prop
       IN /\ page'.posted = IF last # 0 /\ last # u
                             THEN Append(page.posted, last) ELSE page.posted
          /\ C33_Recorded(page') = u]_vars

\* the last URL as the effect can read it
C33_Readable(p) ==
  IF p.ref # 0 THEN p.ref ELSE IF p.storage = "blocked" THEN 0 ELSE p.ls

\* C33: an effect run given a url posts CLEAR_PREVIOUS_VIDEO, carrying the
\* last URL, exactly when the last URL (the ref's, else the one it can read
\* from localStorage) exists, differs from the new URL and a worker
\* controls the page; afterwards the ref holds the new URL, and so does
\* localStorage when it accepts the write.  A run without a url posts and
\* records nothing.  So within one page load each message carries the URL
\* of the preceding run.
C33_MessageCarriesLastUrl ==
  /\ [](page.prop # 0 => page.ref = page.prop)
  /\ [][/\ C33_EffectStep =>
             LET last == C33_Readable(page)
                 u == page'.prop
             IN /\ page'.posted =
                     IF last # 0 /\ last # u /\ page.controller
                     THEN Append(page.posted, last) ELSE page.posted
                /\ page'.ref = u
                /\ page'.ls = IF page.storage = "ok" THEN u ELSE page.ls
        /\ (page'.runs = page.runs + 1 /\ page'.prop = 0) =>
             /\ page'.posted = page.posted
             /\ page'.ref = page.ref
             /\ page'.ls = page.ls]_vars

\* three runs of one page load, two URL changes, each message carrying the
\* URL of the run before it
C33_Witness ==
  /\ page.runs = 3
  /\ page.prop = 1
  /\ page.ref = 1
  /\ page.posted = <<1, 3>>

====
